---- MODULE Spec2Model ----
(***************************************************************************)
(* Stochastic gradient functions of paxml/sgf.py as a state machine.       *)
(*                                                                         *)
(* One strategy instance (its class and its configuration fields) lives in *)
(* the state; grad_fn calls on it are run step by step, each step one      *)
(* action, with the number of differentiations of the loss function        *)
(* counted as the call proceeds.  Arithmetic is exact: numbers are         *)
(* extended rationals, so that the algebra of clipping, averaging and      *)
(* chunked accumulation is decided without rounding.                       *)
(***************************************************************************)
EXTENDS Integers, Sequences, FiniteSets, TLC

(***************************************************************************)
(* Numbers.  A number is a pair <<n, d>> with d >= 0 in lowest terms:      *)
(* d > 0 is the rational n/d, <<1,0>> and <<-1,0>> are +inf and -inf and   *)
(* <<0,0>> is NaN, with the IEEE rules the array library follows for       *)
(* division by zero, inf and NaN.                                          *)
(***************************************************************************)
Abs(n) == IF n < 0 THEN -n ELSE n

RECURSIVE Gcd(_, _)
Gcd(a, b) == IF b = 0 THEN a ELSE Gcd(b, a % b)

Rat(n, d) ==
  LET g == Gcd(Abs(n), d)
  IN IF g = 0 THEN <<0, 0>> ELSE <<n \div g, d \div g>>

NaN == <<0, 0>>
PInf == <<1, 0>>
Zero == <<0, 1>>
One == <<1, 1>>
RInt(n) == <<n, 1>>

IsNaN(x) == x = NaN
IsFinite(x) == x[2] > 0

RMul(x, y) == Rat(x[1] * y[1], x[2] * y[2])

RDiv(x, y) ==
  LET s == IF y[1] < 0 THEN -1 ELSE 1
  IN Rat(s * x[1] * y[2], x[2] * Abs(y[1]))

RAdd(x, y) ==
  IF x[2] = 0 /\ y[2] = 0
  THEN (IF x = y THEN x ELSE NaN)
  ELSE Rat(x[1] * y[2] + y[1] * x[2], x[2] * y[2])

RNeg(x) == <<-x[1], x[2]>>

RLt(x, y) ==
  IF IsNaN(x) \/ IsNaN(y) THEN FALSE
  ELSE IF x[2] = 0 /\ y[2] = 0 THEN x[1] < y[1]
  ELSE x[1] * y[2] < y[1] * x[2]

RGt(x, y) == RLt(y, x)
RLe(x, y) == ~IsNaN(x) /\ ~IsNaN(y) /\ ~RLt(y, x)

\* jnp.maximum / jnp.minimum: NaN propagates.
RMax(x, y) == IF IsNaN(x) \/ IsNaN(y) THEN NaN ELSE IF RLt(x, y) THEN y ELSE x
RMin(x, y) == IF IsNaN(x) \/ IsNaN(y) THEN NaN ELSE IF RLt(y, x) THEN y ELSE x

RECURSIVE SqrtIter(_, _)
SqrtIter(n, x) ==
  LET y == (x + n \div x) \div 2
  IN IF y >= x THEN x ELSE SqrtIter(n, y)

\* The integer square root of a perfect square (no other argument has one).
ISqrt(n) ==
  LET r == IF n = 0 THEN 0 ELSE SqrtIter(n, n)
  IN CHOOSE x \in {r} : x * x = n

RSqrt(x) ==
  IF IsNaN(x) \/ x[1] < 0 THEN NaN
  ELSE IF x[2] = 0 THEN PInf
  ELSE <<ISqrt(x[1]), ISqrt(x[2])>>

RECURSIVE RSum(_)
RSum(s) == IF s = <<>> THEN Zero ELSE RAdd(Head(s), RSum(Tail(s)))

RECURSIVE RMinSeq(_)
RMinSeq(s) == IF Len(s) = 1 THEN s[1] ELSE RMin(s[1], RMinSeq(Tail(s)))

RMean(s) == RDiv(RSum(s), RInt(Len(s)))

(***************************************************************************)
(* Trees.  A parameter or gradient tree is its flattened list of leaves,   *)
(* each leaf one number.  The gradients the loss function yields are       *)
(* multiples k * Dir of one direction whose norm is an integer, so that    *)
(* every norm that arises is rational.                                     *)
(***************************************************************************)
Dir == <<1, 2, 2, 4>>
NumLeaves == Len(Dir)
Leaves == 1..NumLeaves

\* An array holds its elements: a function written as a rule is turned into
\* the tuple of its values.
Array(f) == f \o <<>>

Tree(k) == Array([i \in Leaves |-> RMul(k, RInt(Dir[i]))])
ZeroTree == Tree(Zero)

TreeAdd(a, b) == Array([i \in Leaves |-> RAdd(a[i], b[i])])
TreeScale(c, a) == Array([i \in Leaves |-> RMul(c, a[i])])
TreeDiv(a, c) == Array([i \in Leaves |-> RDiv(a[i], c)])

RECURSIVE TreeSum(_)
TreeSum(ts) == IF ts = <<>> THEN ZeroTree ELSE TreeAdd(Head(ts), TreeSum(Tail(ts)))

TreeMean(ts) == TreeDiv(TreeSum(ts), RInt(Len(ts)))

\* optax.global_norm: the square root of the sum of the squares of all leaves.
GlobalNorm(t) == RSqrt(RSum(Array([i \in Leaves |-> RMul(t[i], t[i])])))

\* Python's None, for the optional fields and arguments (a set value is a
\* number <<n, d>> or a one-element tuple <<n>>).
None == <<>>

(***************************************************************************)
(* Bounds of the model.                                                    *)
(***************************************************************************)
MaxDevices == 2

\* What the loss function yields on one example (or, for the per-core
\* strategy, on one replica's shard): its loss and the coefficient k of its
\* gradient k * Dir, whose norm is 5 * k.
ExampleSet ==
  { [loss |-> RInt(0), k |-> RInt(0)],
    [loss |-> RInt(1), k |-> RInt(1)],
    [loss |-> RInt(3), k |-> RInt(2)],
    [loss |-> RInt(2), k |-> RInt(4)] }

\* aux.loss_weight as the loss function reports it.
LossWeights == { Rat(1, 2), One }

\* Values of the configuration fields.
ClipVals == { RInt(-5), RInt(0), RInt(10) }
NoiseVals == { RInt(0), RInt(1) }
AdaptiveVals == { "None", "min", "max" }

VARIABLES
  kind,          \* the class of the strategy instance
  cfg,           \* its configuration fields, as they are now
  cfg0,          \* its configuration fields as given at construction
  under_pmap,    \* base_layer.is_running_under_pmap()
  device_count,  \* jax.device_count()
  pc,            \* position of the grad_fn call in progress
  inp,           \* what the loss function yields on this call's inputs
  loc,           \* local variables of the call
  ndiff,         \* differentiations of the loss function in this call so far
  keys,          \* uses of random keys in this call so far, in order
  out,           \* how the call ended: what it returned or what it raised
  sc,            \* a direct call of _clipping_bound_scaling: arguments and result
  trees          \* a grad_fn call followed on its trees: the caller's and its own

vars == <<kind, cfg, cfg0, under_pmap, device_count, pc, inp, loc, ndiff, keys, out,
          sc, trees>>

\* The replicas the call runs on.
Replicas == 1..device_count

(***************************************************************************)
(* _clipping_bound_scaling.  The result is [raised, value].                *)
(***************************************************************************)
\* The same without the pmap branch: 1 whenever use_loss_weight_scaling is off.
clipping_bound_scaling_no_pmap(use_loss_weight_scaling, loss_weight) ==
  IF use_loss_weight_scaling
  THEN IF loss_weight = None
       THEN [raised |-> TRUE, value |-> NaN]
       ELSE [raised |-> FALSE, value |-> loss_weight]
  ELSE [raised |-> FALSE, value |-> One]

clipping_bound_scaling(use_loss_weight_scaling, loss_weight) ==
  IF use_loss_weight_scaling
  THEN IF loss_weight = None
       THEN [raised |-> TRUE, value |-> NaN]
       ELSE [raised |-> FALSE, value |-> loss_weight]
  ELSE IF under_pmap
       THEN [raised |-> FALSE, value |-> RDiv(One, RInt(device_count))]
       ELSE [raised |-> FALSE, value |-> One]

(***************************************************************************)
(* Instances and calls.                                                    *)
(***************************************************************************)
\* A field a class does not have keeps the value given here for it.
Config(clip, noise, lws, norm, adapt, ibs, mb, uni) ==
  [ l2_norm_clip |-> clip,
    noise_multiplier |-> noise,
    use_loss_weight_scaling |-> lws,
    normalize_gradients |-> norm,
    adaptive_clipping_method |-> adapt,
    inner_batch_size |-> ibs,
    microbatch_size |-> mb,
    use_uniform |-> uni ]

\* The incoming prng_key, and the i-th of the n keys jax.random.split makes of a key.
RootKey == <<>>
SubKey(key, n, i) == <<key, n, i>>
SplitKeys(key, n) == [i \in 1..n |-> SubKey(key, n, i - 1)]

NoOut == [status |-> "none"]
Raised(e) == [status |-> "raised", error |-> e]

Ended == pc \in {"idle", "returned", "raised"}

\* grad_fn is entered: nothing has been computed yet.
Call ==
  /\ Ended
  /\ pc' = "validate"
  /\ inp' = <<>>
  /\ loc' = <<>>
  /\ ndiff' = 0
  /\ keys' = <<>>
  /\ out' = NoOut
  /\ UNCHANGED <<trees, kind, cfg, cfg0, under_pmap, device_count, sc>>

\* The call ends by raising e.
Raise(e) ==
  /\ pc' = "raised"
  /\ out' = Raised(e)
  /\ UNCHANGED <<trees, kind, cfg, cfg0, under_pmap, device_count, inp, loc, ndiff, keys, sc>>

Environments ==
  { <<FALSE, 1>> } \cup { <<TRUE, n>> : n \in 1..MaxDevices }

InitEnv ==
  \E e \in Environments :
    /\ under_pmap = e[1]
    /\ device_count = e[2]

InitCall ==
  /\ pc = "idle"
  /\ inp = <<>>
  /\ loc = <<>>
  /\ ndiff = 0
  /\ keys = <<>>
  /\ out = NoOut

(***************************************************************************)
(* PercoreClippedDpSgdGradient.  Under pmap every replica runs the same    *)
(* call on its own shard; the locals are kept per replica.                 *)
(***************************************************************************)
PercoreConfigs ==
  { Config(c, n, l, g, a, None, <<1>>, TRUE) :
      c \in ClipVals \cup {None}, n \in NoiseVals, l \in BOOLEAN,
      g \in BOOLEAN, a \in AdaptiveVals }

\* The same with the divisor norm / l2_norm_clip, not held at 1 from below.
clip_gradients_always_rescale(grads, l2_norm_clip) ==
  LET global_grad_norm == GlobalNorm(grads)
      divisor == RDiv(global_grad_norm, l2_norm_clip)
  IN [ clipped |-> TreeDiv(grads, divisor),
       num_clipped |-> RGt(divisor, One),
       grad_norm |-> global_grad_norm ]

\* _clip_gradients, after its assertion, on one replica's gradient tree.
clip_gradients(grads, l2_norm_clip) ==
  LET global_grad_norm == GlobalNorm(grads)
      divisor == RMax(RDiv(global_grad_norm, l2_norm_clip), One)
  IN [ clipped |-> TreeDiv(grads, divisor),
       num_clipped |-> RGt(divisor, One),
       grad_norm |-> global_grad_norm ]

\* The assertion _clip_gradients opens with.
clip_gradients_assertion ==
  \/ cfg.adaptive_clipping_method # "None"
  \/ RGt(cfg.l2_norm_clip, Zero)

\* _add_noise: the variance of the noise added to every leaf and the key of
\* each leaf's draw.  x + noise_stddev * normal(key) is kept as x together
\* with them.
add_noise(noise_stddev, scaling, prng_key) ==
  LET stddev2 == RMul(noise_stddev, noise_stddev)
  IN [ variance |-> IF under_pmap
                    THEN RMul(stddev2, RMul(scaling, RMul(scaling, scaling)))
                    ELSE stddev2,
       leaf_keys |-> SplitKeys(prng_key, NumLeaves) ]

NoNoise == [variance |-> Zero, leaf_keys |-> <<>>]

\* The same checks with the assertion ahead of the pmap check.
Percore_Validate_assertion_first ==
  /\ kind = "Percore"
  /\ pc = "validate"
  /\ IF cfg.use_loss_weight_scaling /\ cfg.noise_multiplier # Zero
     THEN Raise("AssertionError")
     ELSE IF ~under_pmap
     THEN Raise("ValueError")
     ELSE /\ pc' = "differentiate"
          /\ UNCHANGED <<trees, kind, cfg, cfg0, under_pmap, device_count, inp, loc,
                         ndiff, keys, out, sc>>

\* Lines 249-257: the checks grad_fn opens with.
Percore_Validate ==
  /\ kind = "Percore"
  /\ pc = "validate"
  /\ IF ~under_pmap
     THEN Raise("ValueError")
     ELSE IF cfg.use_loss_weight_scaling /\ cfg.noise_multiplier # Zero
     THEN Raise("AssertionError")
     ELSE /\ pc' = "differentiate"
          /\ UNCHANGED <<trees, kind, cfg, cfg0, under_pmap, device_count, inp, loc,
                         ndiff, keys, out, sc>>

\* Lines 259-268: the loss function is differentiated on every replica's shard.
Percore_Differentiate ==
  /\ kind = "Percore"
  /\ pc = "differentiate"
  /\ \E ex \in [Replicas -> ExampleSet], lw \in LossWeights :
       /\ inp' = [examples |-> ex, loss_weight |-> lw]
       /\ loc' = [ values |-> [r \in Replicas |-> ex[r].loss],
                   grads |-> [r \in Replicas |-> Tree(ex[r].k)],
                   clipping_bound_scaling |->
                     clipping_bound_scaling(cfg.use_loss_weight_scaling, lw).value ]
  /\ ndiff' = ndiff + 1
  /\ keys' = Append(keys, [op |-> "loss_fn", key |-> RootKey])
  /\ pc' = "adaptive"
  /\ UNCHANGED <<trees, kind, cfg, cfg0, under_pmap, device_count, out, sc>>

\* Lines 270-280: the adaptive clipping method.
Percore_Adaptive ==
  /\ kind = "Percore"
  /\ pc = "adaptive"
  /\ IF cfg.adaptive_clipping_method = "min"
     THEN LET grads_norm == [r \in Replicas |-> GlobalNorm(loc.grads[r])]
          IN /\ cfg' = [cfg EXCEPT !.l2_norm_clip =
                          RDiv(RMinSeq(grads_norm), loc.clipping_bound_scaling)]
             /\ pc' = "clip"
             /\ UNCHANGED <<trees, kind, cfg0, under_pmap, device_count, inp, loc,
                            ndiff, keys, out, sc>>
     ELSE IF cfg.adaptive_clipping_method # "None"
     THEN Raise("ValueError")
     ELSE /\ pc' = "clip"
          /\ UNCHANGED <<trees, kind, cfg, cfg0, under_pmap, device_count, inp, loc,
                         ndiff, keys, out, sc>>

\* Lines 282-285: clipping, unless l2_norm_clip is None.
Percore_Clip ==
  /\ kind = "Percore"
  /\ pc = "clip"
  /\ IF cfg.l2_norm_clip = None
     THEN /\ loc' = [ values |-> loc.values,
                      grads |-> loc.grads,
                      clipping_bound_scaling |-> loc.clipping_bound_scaling,
                      bound |-> FALSE,
                      num_clipped |-> [r \in Replicas |-> FALSE],
                      grad_norm |-> [r \in Replicas |-> NaN] ]
          /\ pc' = "finish"
          /\ UNCHANGED <<trees, kind, cfg, cfg0, under_pmap, device_count, inp,
                         ndiff, keys, out, sc>>
     ELSE IF ~clip_gradients_assertion
     THEN Raise("AssertionError")
     ELSE LET c == [r \in Replicas |->
                      clip_gradients(loc.grads[r],
                        RMul(loc.clipping_bound_scaling, cfg.l2_norm_clip))]
          IN /\ loc' = [ values |-> loc.values,
                         grads |-> [r \in Replicas |-> c[r].clipped],
                         clipping_bound_scaling |-> loc.clipping_bound_scaling,
                         bound |-> TRUE,
                         num_clipped |-> [r \in Replicas |-> c[r].num_clipped],
                         grad_norm |-> [r \in Replicas |-> c[r].grad_norm] ]
             /\ pc' = "finish"
             /\ UNCHANGED <<trees, kind, cfg, cfg0, under_pmap, device_count, inp,
                            ndiff, keys, out, sc>>

\* Lines 287-309: normalization, noise and the value returned.  Dividing or
\* multiplying by a None l2_norm_clip is a TypeError, and reading num_clipped
\* and grad_norm when nothing was clipped an UnboundLocalError.
Percore_Finish ==
  /\ kind = "Percore"
  /\ pc = "finish"
  /\ LET noised == RGt(cfg.noise_multiplier, Zero)
         normalized ==
           IF cfg.normalize_gradients
           THEN [r \in Replicas |-> TreeDiv(loc.grads[r], cfg.l2_norm_clip)]
           ELSE loc.grads
         noise_stddev ==
           RMul(cfg.noise_multiplier,
                IF cfg.normalize_gradients THEN One ELSE cfg.l2_norm_clip)
     IN IF cfg.l2_norm_clip = None /\ (cfg.normalize_gradients \/ noised)
        THEN Raise("TypeError")
        ELSE IF ~loc.bound
        THEN /\ keys' = IF noised
                        THEN Append(keys, [op |-> "split", key |-> RootKey])
                        ELSE keys
             /\ pc' = "raised"
             /\ out' = Raised("UnboundLocalError")
             /\ UNCHANGED <<trees, kind, cfg, cfg0, under_pmap, device_count, inp, loc,
                            ndiff, sc>>
        ELSE /\ keys' = IF noised
                        THEN Append(keys, [op |-> "split", key |-> RootKey])
                        ELSE keys
             /\ pc' = "returned"
             /\ out' = [ status |-> "returned",
                         values |-> loc.values,
                         grads |-> normalized,
                         noise |-> IF noised
                                   THEN add_noise(noise_stddev,
                                          loc.clipping_bound_scaling, RootKey)
                                   ELSE NoNoise,
                         frac_clipped |-> loc.num_clipped,
                         per_core_grad_norm |-> loc.grad_norm,
                         loss_weight |-> inp.loss_weight ]
             /\ UNCHANGED <<trees, kind, cfg, cfg0, under_pmap, device_count, inp, loc,
                            ndiff, sc>>

InitPercore ==
  /\ kind = "Percore"
  /\ cfg \in PercoreConfigs
  /\ cfg0 = cfg
  /\ InitEnv
  /\ InitCall
  /\ sc = <<>>
  /\ trees = <<>>

NextPercore ==
  \/ Call
  \/ Percore_Validate
  \/ Percore_Differentiate
  \/ Percore_Adaptive
  \/ Percore_Clip
  \/ Percore_Finish

SpecPercore == InitPercore /\ [][NextPercore]_vars

(***************************************************************************)
(* DpSgdStochasticGradient and the classes that inherit its grad_fn.       *)
(***************************************************************************)
MaxBatch == 4
MicroVals == 1..3
InnerVals == {None} \cup { <<i>> : i \in 1..MaxBatch }

DpSgdFamily == {"DpSgd", "Microbatch", "AugMul", "PerLayer"}

\* The instances explored.  DpSgdStochasticGradient itself takes every
\* combination of its fields; the subclasses, which inherit grad_fn, take
\* every combination but with normalize_gradients off.
DpSgdConfigs(k) ==
  { Config(c, n, l, g, "None", ibs, <<mb>>, uni) :
      c \in ClipVals, n \in NoiseVals, l \in BOOLEAN,
      g \in IF k = "DpSgd" THEN BOOLEAN ELSE {FALSE},
      ibs \in IF k = "PerLayer" THEN {None} ELSE InnerVals,
      mb \in IF k \in {"Microbatch", "AugMul"} THEN MicroVals ELSE {1},
      uni \in IF k = "PerLayer" THEN BOOLEAN ELSE {TRUE} }

\* The examples a batch is drawn from.
NonZeroExamples == { e \in ExampleSet : e.k # RInt(0) }
ExtremeExamples == { e \in ExampleSet : e.k \in {RInt(0), RInt(4)} }
ExamplesOf(k) == IF k = "DpSgd" THEN NonZeroExamples ELSE ExtremeExamples

\* The loss function on a batch of examples: the mean of the per-example
\* losses, whose gradient is the mean of the per-example gradients.
loss_fn(batch, loss_weight) ==
  [ loss |-> RMean(Array([j \in 1..Len(batch) |-> batch[j].loss])),
    grad |-> TreeMean(Array([j \in 1..Len(batch) |-> Tree(batch[j].k)])),
    loss_weight |-> loss_weight ]

\* The same with the copies of the augmentation variant laid out by tiling
\* the batch, not by repeating every example.
prepare_inputs_tiled(k, microbatch_size, raw) ==
  LET n == Len(raw)
  IN CASE k = "Microbatch" ->
            [ ok |-> n % microbatch_size = 0,
              batch_size |-> n \div microbatch_size,
              microbatch_size |-> microbatch_size,
              flat |-> raw ]
       [] k = "AugMul" ->
            [ ok |-> TRUE,
              batch_size |-> n,
              microbatch_size |-> microbatch_size,
              flat |-> Array([i \in 1..(n * microbatch_size) |->
                                raw[((i - 1) % n) + 1]]) ]
       [] OTHER ->
            [ ok |-> TRUE, batch_size |-> n, microbatch_size |-> 1, flat |-> raw ]

\* _prepare_inputs of each class, on a raw batch of n examples: the batch
\* as (batch_size, microbatch_size), flattened row by row.  ok is false when
\* the reshape fails.
prepare_inputs(k, microbatch_size, raw) ==
  LET n == Len(raw)
  IN CASE k = "Microbatch" ->
            [ ok |-> n % microbatch_size = 0,
              batch_size |-> n \div microbatch_size,
              microbatch_size |-> microbatch_size,
              flat |-> raw ]
       [] k = "AugMul" ->
            [ ok |-> TRUE,
              batch_size |-> n,
              microbatch_size |-> microbatch_size,
              flat |-> Array([i \in 1..(n * microbatch_size) |->
                                raw[((i - 1) \div microbatch_size) + 1]]) ]
       [] OTHER ->
            [ ok |-> TRUE, batch_size |-> n, microbatch_size |-> 1, flat |-> raw ]

\* Lines 446-449: the inner batch size in force.
inner_batch_size_of(ibs, batch_size, microbatch_size) ==
  IF ibs = None THEN batch_size * microbatch_size ELSE ibs[1]

\* The same check on the number of groups alone.
divisible_by_batch_size(batch_size, microbatch_size, inner_batch_size) ==
  batch_size % inner_batch_size = 0

\* Line 451: the condition under which grad_fn goes on.
divisible(batch_size, microbatch_size, inner_batch_size) ==
  (batch_size * microbatch_size) % inner_batch_size = 0

\* The same with the splits taken of batch_size * microbatch_size.
chunking_of_total_examples(batch_size, microbatch_size, inner_batch_size) ==
  LET total_examples == batch_size * microbatch_size
      batch_splits == Gcd(total_examples, inner_batch_size)
      microbatch_splits == inner_batch_size \div batch_splits
      dim2 == microbatch_size \div microbatch_splits
  IN [ inner_batch_size |-> inner_batch_size,
       batch_splits |-> batch_splits,
       microbatch_splits |-> microbatch_splits,
       num_iters |-> total_examples \div batch_splits,
       dim2 |-> dim2,
       dim1 |-> IF dim2 = 0 THEN 0
                ELSE total_examples \div (inner_batch_size * dim2),
       reshape_ok |-> /\ dim2 > 0
                      /\ total_examples % (inner_batch_size * dim2) = 0 ]

\* Lines 457-484: how the batch is cut into inner batches.  reshape_batch
\* gives the inputs the shape (inner_batch_size, dim1, dim2).
chunking(batch_size, microbatch_size, inner_batch_size) ==
  LET batch_splits == Gcd(batch_size, inner_batch_size)
      microbatch_splits == inner_batch_size \div batch_splits
      dim2 == microbatch_size \div microbatch_splits
  IN [ inner_batch_size |-> inner_batch_size,
       batch_splits |-> batch_splits,
       microbatch_splits |-> microbatch_splits,
       num_iters |-> batch_size \div batch_splits,
       dim2 |-> dim2,
       dim1 |-> IF dim2 = 0 THEN 0
                ELSE (batch_size * microbatch_size) \div (inner_batch_size * dim2),
       reshape_ok |-> /\ dim2 > 0
                      /\ (batch_size * microbatch_size) % (inner_batch_size * dim2) = 0 ]

\* Line 488: the positions, in the flattened batch, of the examples that row r
\* of inner batch index holds (x[:, index, ...] of the reshaped inputs).
row_positions(ch, index, r) ==
  [j \in 1..ch.dim2 |-> (r - 1) * ch.dim1 * ch.dim2 + index * ch.dim2 + j]

\* The same, counting as clipped every example whose norm reaches the bound.
per_example_global_norm_clip_counting_equal(grads, l2_norm_clip) ==
  LET n == Len(grads)
      norms == Array([q \in 1..n |-> GlobalNorm(grads[q])])
      divisors == Array([q \in 1..n |-> RMax(RDiv(norms[q], l2_norm_clip), One)])
  IN [ sum |-> TreeSum(Array([q \in 1..n |-> TreeDiv(grads[q], divisors[q])])),
       num_clipped |-> Cardinality({q \in 1..n : ~RLt(norms[q], l2_norm_clip)}) ]

\* optax.per_example_global_norm_clip, as called at lines 373-375.
per_example_global_norm_clip(grads, l2_norm_clip) ==
  LET n == Len(grads)
      divisors == Array([q \in 1..n |->
                           RMax(RDiv(GlobalNorm(grads[q]), l2_norm_clip), One)])
  IN [ sum |-> TreeSum(Array([q \in 1..n |-> TreeDiv(grads[q], divisors[q])])),
       num_clipped |-> Cardinality({q \in 1..n : RGt(divisors[q], One)}) ]

\* _reshape_and_mean over every leaf: rows are averaged microbatch_size at a time.
reshape_and_mean(grads, microbatch_size) ==
  Array([q \in 1..(Len(grads) \div microbatch_size) |->
           TreeMean(Array([t \in 1..microbatch_size |->
                             grads[(q - 1) * microbatch_size + t]]))])

\* DpSgdStochasticGradient._clip_and_mean_gradients.  dp_aux_info is the
\* list <<frac_clipped>>.
clip_and_mean_gradients(grads, l2_norm_clip, microbatch_size) ==
  LET g == reshape_and_mean(grads, microbatch_size)
      pe == per_example_global_norm_clip(g, l2_norm_clip)
      batch_size == Len(g)
  IN [ grads |-> TreeDiv(pe.sum, RInt(batch_size)),
       dp_aux_info |-> << RDiv(RInt(pe.num_clipped), RInt(batch_size)) >> ]

RAbs(x) == <<Abs(x[1]), x[2]>>

\* PerLayerDpSgdStochasticGradient._clip_and_mean_gradients.  Every leaf is
\* clipped on its own to global_l2_norm_clip * sqrt(1 / number of leaves)
\* (the leaves have one size, so the uniform and the scaled variant agree;
\* the primitive's eps is left out).  dp_aux_info is the list of the
\* per-leaf frac_clipped, then mean_frac_clipped, then the per-leaf
\* mean_layer_grad_norms; stdev_frac_clipped is not kept.
perlayer_clip_and_mean_gradients(grads, l2_norm_clip, microbatch_size, uniform) ==
  LET g == reshape_and_mean(grads, microbatch_size)
      batch_size == Len(g)
      layer_clip == RMul(l2_norm_clip, RSqrt(Rat(1, NumLeaves)))
      divisor(q, i) == RMax(RDiv(RAbs(g[q][i]), layer_clip), One)
      frac == Array([i \in Leaves |->
                 RDiv(RInt(Cardinality({q \in 1..batch_size : RGt(divisor(q, i), One)})),
                      RInt(batch_size))])
      norms == Array([i \in Leaves |->
                  RDiv(RSum(Array([q \in 1..batch_size |-> RAbs(g[q][i])])),
                       RInt(batch_size))])
  IN [ grads |-> Array([i \in Leaves |->
                    RDiv(RSum(Array([q \in 1..batch_size |->
                                       RDiv(g[q][i], divisor(q, i))])),
                         RInt(batch_size))]),
       dp_aux_info |-> frac \o << RMean(frac) >> \o norms ]

\* How the per-row clipping bound meets the per-group norms inside the
\* clipping primitive.  With use_loss_weight_scaling the bound is a vector
\* with one entry per row; it fits the norms when every group is one row.
\* Otherwise the shapes do not broadcast, except that with a single group
\* the primitive may broadcast the group against the rows and sum the copies.
broadcast_modes(use_loss_weight_scaling, ch) ==
  IF ~use_loss_weight_scaling \/ ch.microbatch_splits = 1 THEN {"fits"}
  ELSE IF ch.batch_splits = 1 THEN {"error", "sum"}
  ELSE {"error"}

\* _process_inner_batch (lines 486-515) for a class k with configuration c.
process_inner_batch(k, c, flat, loss_weight, ch, index, mode) ==
  LET rows == Array([r \in 1..ch.inner_batch_size |->
                 loss_fn(Array([j \in 1..ch.dim2 |->
                                  flat[row_positions(ch, index, r)[j]]]),
                         loss_weight)])
      scaling == clipping_bound_scaling(c.use_loss_weight_scaling, loss_weight).value
      bound == RMul(scaling, c.l2_norm_clip)
      rowgrads == Array([r \in 1..ch.inner_batch_size |-> rows[r].grad])
      cm == IF k = "PerLayer"
            THEN perlayer_clip_and_mean_gradients(rowgrads, bound,
                   ch.microbatch_splits, c.use_uniform)
            ELSE clip_and_mean_gradients(rowgrads, bound, ch.microbatch_splits)
      copies == IF mode = "sum" THEN RInt(ch.microbatch_splits) ELSE One
  IN [ values |-> RMean(Array([r \in 1..ch.inner_batch_size |-> rows[r].loss])),
       loss_weight |->
         RMean(Array([r \in 1..ch.inner_batch_size |-> rows[r].loss_weight])),
       dp_aux_info |->
         Array([i \in 1..Len(cm.dp_aux_info) |-> RMul(copies, cm.dp_aux_info[i])]),
       grads |-> TreeScale(copies, cm.grads) ]

\* The same keeping the later of the two results.
acc_keep_last(a, b) == b

\* jax.tree.map(jnp.add, ...) and the final multiplication by 1 / num_iters.
acc_add(a, b) ==
  [ values |-> RAdd(a.values, b.values),
    loss_weight |-> RAdd(a.loss_weight, b.loss_weight),
    dp_aux_info |-> [i \in 1..Len(a.dp_aux_info) |->
                       RAdd(a.dp_aux_info[i], b.dp_aux_info[i])],
    grads |-> TreeAdd(a.grads, b.grads) ]

acc_scale(c, a) ==
  [ values |-> RMul(c, a.values),
    loss_weight |-> RMul(c, a.loss_weight),
    dp_aux_info |-> [i \in 1..Len(a.dp_aux_info) |-> RMul(c, a.dp_aux_info[i])],
    grads |-> TreeScale(c, a.grads) ]

\* aux.loss_weight is read only for use_loss_weight_scaling; without it the
\* loss function is taken to report 1.
LossWeightsOf(c) == IF c.use_loss_weight_scaling THEN LossWeights ELSE {One}

\* Lines 431-436: the assertions grad_fn opens with.
DpSgd_Validate ==
  /\ kind \in DpSgdFamily
  /\ pc = "validate"
  /\ IF ~RGt(cfg.l2_norm_clip, Zero)
     THEN Raise("AssertionError")
     ELSE IF cfg.use_loss_weight_scaling /\ cfg.noise_multiplier # Zero
     THEN Raise("AssertionError")
     ELSE /\ pc' = "prepare"
          /\ UNCHANGED <<trees, kind, cfg, cfg0, under_pmap, device_count, inp, loc,
                         ndiff, keys, out, sc>>

\* Lines 438-484 on a raw batch: how far they get (ok, or the error they
\* end in), whether prng_key has been split by then, and the locals.
prepared(k, c, raw) ==
  LET p == prepare_inputs(k, c.microbatch_size[1], raw)
      ibs == inner_batch_size_of(c.inner_batch_size, p.batch_size, p.microbatch_size)
      ch == chunking(p.batch_size, p.microbatch_size, ibs)
      sizes == [batch_size |-> p.batch_size, microbatch_size |-> p.microbatch_size]
  IN IF ~p.ok
     THEN [status |-> "ShapeError", split |-> FALSE, loc |-> <<>>]
     ELSE IF ~divisible(p.batch_size, p.microbatch_size, ibs)
     THEN [status |-> "ValueError", split |-> FALSE, loc |-> sizes]
     ELSE IF ~ch.reshape_ok
     THEN [status |-> "ShapeError", split |-> TRUE, loc |-> sizes]
     ELSE [ status |-> "ok",
            split |-> TRUE,
            loc |-> [ batch_size |-> p.batch_size,
                      microbatch_size |-> p.microbatch_size,
                      inputs |-> p.flat,
                      ch |-> ch,
                      inner_prng_keys |-> SplitKeys(RootKey, ch.num_iters),
                      index |-> 0,
                      processed |-> <<>>,
                      acc |-> <<>> ] ]

\* Lines 438-484: the inputs are prepared and cut into inner batches.
DpSgd_Prepare ==
  /\ kind \in DpSgdFamily
  /\ pc = "prepare"
  /\ \E n \in 1..MaxBatch :
     \E raw \in [1..n -> ExamplesOf(kind)], lw \in LossWeightsOf(cfg) :
     \E r \in {prepared(kind, cfg, raw)} :
       /\ inp' = [examples |-> raw, loss_weight |-> lw]
       /\ loc' = r.loc
       /\ keys' = IF r.split
                  THEN Append(keys, [op |-> "split", key |-> RootKey])
                  ELSE keys
       /\ IF r.status = "ok"
          THEN pc' = "first" /\ UNCHANGED out
          ELSE pc' = "raised" /\ out' = Raised(r.status)
  /\ UNCHANGED <<trees, kind, cfg, cfg0, under_pmap, device_count, ndiff, sc>>

\* One inner batch is differentiated, clipped and averaged; e is what the
\* clipping primitive makes of the shapes.
DpSgd_Inner(index, mode, first) ==
  IF mode = "error"
  THEN /\ pc' = "raised"
       /\ out' = Raised("ShapeError")
       /\ UNCHANGED loc
  ELSE LET r == process_inner_batch(kind, cfg, loc.inputs, inp.loss_weight,
                                    loc.ch, index, mode)
       IN /\ loc' = [loc EXCEPT !.acc = IF first THEN r ELSE acc_add(loc.acc, r),
                                !.processed = Append(loc.processed, index),
                                !.index = index + 1]
          /\ pc' = "loop"
          /\ UNCHANGED out

\* Lines 530-532: inner batch 0 is processed to start the accumulation.
DpSgd_FirstBatch ==
  /\ kind \in DpSgdFamily
  /\ pc = "first"
  /\ \E mode \in broadcast_modes(cfg.use_loss_weight_scaling, loc.ch) :
       DpSgd_Inner(0, mode, TRUE)
  /\ ndiff' = ndiff + 1
  /\ keys' = Append(keys, [op |-> "loss_fn", key |-> loc.inner_prng_keys[1]])
  /\ UNCHANGED <<trees, kind, cfg, cfg0, under_pmap, device_count, inp, sc>>

\* Lines 517-525: one turn of the fori_loop over inner batches 1, 2, ...
DpSgd_LoopBody ==
  /\ kind \in DpSgdFamily
  /\ pc = "loop"
  /\ loc.index < loc.ch.num_iters
  /\ \E mode \in broadcast_modes(cfg.use_loss_weight_scaling, loc.ch) :
       DpSgd_Inner(loc.index, mode, FALSE)
  /\ ndiff' = ndiff + 1
  /\ keys' = Append(keys, [op |-> "loss_fn", key |-> loc.inner_prng_keys[loc.index + 1]])
  /\ UNCHANGED <<trees, kind, cfg, cfg0, under_pmap, device_count, inp, sc>>

\* Lines 534-557: what grad_fn returns, given the locals l after the loop.
dpsgd_result(c, l) ==
  LET res == acc_scale(RDiv(One, RInt(l.ch.num_iters)), l.acc)
      noised == RGt(c.noise_multiplier, Zero)
      noise_stddev ==
        RMul(RDiv(c.noise_multiplier, RInt(l.batch_size)),
             IF c.normalize_gradients THEN One ELSE c.l2_norm_clip)
      scaling == clipping_bound_scaling(c.use_loss_weight_scaling, None)
  IN [ status |-> "returned",
       values |-> res.values,
       grads |-> IF c.normalize_gradients
                 THEN TreeDiv(res.grads, c.l2_norm_clip)
                 ELSE res.grads,
       noise |-> IF noised
                 THEN add_noise(noise_stddev, scaling.value, RootKey)
                 ELSE NoNoise,
       dp_aux_info |-> res.dp_aux_info,
       loss_weight |-> res.loss_weight ]

\* Lines 534-557: the sums are divided by num_iters, the gradients
\* normalized and noised, and the result returned.
DpSgd_Finish ==
  /\ kind \in DpSgdFamily
  /\ pc = "loop"
  /\ loc.index >= loc.ch.num_iters
  /\ LET noised == RGt(cfg.noise_multiplier, Zero)
         scaling == clipping_bound_scaling(cfg.use_loss_weight_scaling, None)
     IN IF noised /\ scaling.raised
        THEN /\ pc' = "raised"
             /\ out' = Raised("ValueError")
             /\ UNCHANGED keys
        ELSE /\ pc' = "returned"
             /\ keys' = IF noised
                        THEN Append(keys, [op |-> "split", key |-> RootKey])
                        ELSE keys
             /\ out' = dpsgd_result(cfg, loc)
  /\ UNCHANGED <<trees, kind, cfg, cfg0, under_pmap, device_count, inp, loc, ndiff, sc>>

InitDpSgd ==
  /\ kind \in DpSgdFamily
  /\ cfg \in DpSgdConfigs(kind)
  /\ cfg0 = cfg
  /\ InitEnv
  /\ InitCall
  /\ sc = <<>>
  /\ trees = <<>>

NextDpSgd ==
  \/ Call
  \/ DpSgd_Validate
  \/ DpSgd_Prepare
  \/ DpSgd_FirstBatch
  \/ DpSgd_LoopBody
  \/ DpSgd_Finish

SpecDpSgd == InitDpSgd /\ [][NextDpSgd]_vars

(***************************************************************************)
(* GhostClippingDpSgdStochasticGradient.  The ghost norm protocol of       *)
(* paxml.ghostnorm is taken from its description: one differentiation with *)
(* per-example scales yields the loss, the average of the per-example      *)
(* gradients weighted by the scales, and for every leaf the squared norm   *)
(* of each example's gradient.  Under pmap the loss is divided by the      *)
(* global batch size, so gradients and norms come out divided by the       *)
(* number of devices.                                                      *)
(***************************************************************************)
GhostConfigs ==
  { Config(c, n, l, g, "None", ibs, <<1>>, TRUE) :
      c \in ClipVals \cup {None}, n \in NoiseVals, l \in BOOLEAN,
      g \in BOOLEAN, ibs \in {None, <<2>>} }

loss_scale == IF under_pmap THEN RDiv(One, RInt(device_count)) ELSE One

ghost_pass(batch, scales, loss_weight) ==
  LET n == Len(batch)
  IN [ loss |-> RMul(loss_scale, RMean(Array([j \in 1..n |-> batch[j].loss]))),
       grad |-> TreeScale(loss_scale,
                  TreeMean(Array([j \in 1..n |->
                                    TreeScale(scales[j], Tree(batch[j].k))]))),
       sq_norms |-> Array([i \in Leaves |-> Array([j \in 1..n |->
                      LET x == RMul(loss_scale, Tree(batch[j].k)[i])
                      IN RMul(x, x)])]),
       loss_weight |-> loss_weight ]

\* Lines 729-736: the per-example norms, summed over the leaves.
ghost_grad_norms(sq_norms, n) ==
  Array([j \in 1..n |-> RSqrt(RSum(Array([i \in Leaves |-> sq_norms[i][j]])))])

\* The same with normalize_gradients left out of the scales.
ghost_scales_not_normalized(c, grad_norms) ==
  LET n == Len(grad_norms)
      ones == Array([j \in 1..n |-> One])
      clipped == Array([j \in 1..n |-> RMin(One, RDiv(c.l2_norm_clip, grad_norms[j]))])
  IN IF c.l2_norm_clip = None
     THEN [scales |-> ones, frac_clipped |-> Zero]
     ELSE [ scales |-> clipped,
            frac_clipped |->
              RDiv(RInt(Cardinality({j \in 1..n : RLt(clipped[j], One)})), RInt(n)) ]

\* Lines 751-757: the per-example scales and frac_clipped.
ghost_scales(c, grad_norms) ==
  LET n == Len(grad_norms)
      ones == Array([j \in 1..n |-> One])
      clipped == Array([j \in 1..n |-> RMin(One, RDiv(c.l2_norm_clip, grad_norms[j]))])
  IN IF c.l2_norm_clip = None
     THEN [scales |-> ones, frac_clipped |-> Zero]
     ELSE [ scales |-> IF c.normalize_gradients
                       THEN Array([j \in 1..n |-> RDiv(clipped[j], c.l2_norm_clip)])
                       ELSE clipped,
            frac_clipped |->
              RDiv(RInt(Cardinality({j \in 1..n : RLt(clipped[j], One)})), RInt(n)) ]

\* Lines 717-757: what pass 1 leaves in the locals.
ghost_first_pass(c, examples, loss_weight) ==
  LET batch_size == Len(examples)
      ones == Array([j \in 1..batch_size |-> One])
      p == ghost_pass(examples, ones, loss_weight)
      raw_norms == ghost_grad_norms(p.sq_norms, batch_size)
      grad_norms == IF under_pmap
                    THEN Array([j \in 1..batch_size |->
                                  RMul(raw_norms[j], RDiv(One, p.loss_weight))])
                    ELSE raw_norms
      sf == ghost_scales(c, grad_norms)
  IN [ batch_size |-> batch_size,
       pass1_scales |-> ones,
       grad_norms |-> grad_norms,
       scales |-> sf.scales,
       frac_clipped |-> sf.frac_clipped ]

\* The same without the assertion on inner_batch_size.
Ghost_Validate_unchecked ==
  /\ kind = "Ghost"
  /\ pc = "validate"
  /\ \E n \in 1..MaxBatch :
       \E raw \in [1..n -> ExamplesOf(kind)], lw \in LossWeights :
         inp' = [examples |-> raw, loss_weight |-> lw]
  /\ pc' = "pass1"
  /\ UNCHANGED <<trees, kind, cfg, cfg0, under_pmap, device_count, loc, ndiff,
                 keys, out, sc>>

\* Lines 708-715: the assertion, then the batch size is read off the inputs.
Ghost_Validate ==
  /\ kind = "Ghost"
  /\ pc = "validate"
  /\ IF cfg.inner_batch_size # None
     THEN Raise("AssertionError")
     ELSE /\ \E n \in 1..MaxBatch :
             \E raw \in [1..n -> ExamplesOf(kind)], lw \in LossWeights :
               inp' = [examples |-> raw, loss_weight |-> lw]
          /\ pc' = "pass1"
          /\ UNCHANGED <<trees, kind, cfg, cfg0, under_pmap, device_count, loc, ndiff,
                         keys, out, sc>>

\* Lines 717-757: pass 1 with scales of one, and the scales made of its norms.
Ghost_Pass1 ==
  /\ kind = "Ghost"
  /\ pc = "pass1"
  /\ loc' = ghost_first_pass(cfg, inp.examples, inp.loss_weight)
  /\ ndiff' = ndiff + 1
  /\ keys' = Append(keys, [op |-> "loss_fn", key |-> RootKey])
  /\ pc' = "pass2"
  /\ UNCHANGED <<trees, kind, cfg, cfg0, under_pmap, device_count, inp, out, sc>>

\* Lines 759-770: what pass 2 adds to the locals l.
ghost_second_pass(l, examples, loss_weight) ==
  LET p == ghost_pass(examples, l.scales, loss_weight)
  IN [ batch_size |-> l.batch_size,
       pass1_scales |-> l.pass1_scales,
       grad_norms |-> l.grad_norms,
       scales |-> l.scales,
       frac_clipped |-> l.frac_clipped,
       loss |-> p.loss,
       clipped_grads |-> p.grad,
       loss_weight |-> p.loss_weight ]

\* Lines 759-770: pass 2 with the scales.
Ghost_Pass2 ==
  /\ kind = "Ghost"
  /\ pc = "pass2"
  /\ loc' = ghost_second_pass(loc, inp.examples, inp.loss_weight)
  /\ ndiff' = ndiff + 1
  /\ keys' = Append(keys, [op |-> "loss_fn", key |-> RootKey])
  /\ pc' = "finish"
  /\ UNCHANGED <<trees, kind, cfg, cfg0, under_pmap, device_count, inp, out, sc>>

\* Lines 772-792: the noise is added and the result returned.
Ghost_Finish ==
  /\ kind = "Ghost"
  /\ pc = "finish"
  /\ LET noised == RGt(cfg.noise_multiplier, Zero)
         noise_stddev ==
           RMul(RDiv(cfg.noise_multiplier, RInt(loc.batch_size)),
                IF cfg.normalize_gradients THEN One ELSE cfg.l2_norm_clip)
     IN IF noised /\ ~cfg.normalize_gradients /\ cfg.l2_norm_clip = None
        THEN /\ pc' = "raised"
             /\ out' = Raised("TypeError")
             /\ UNCHANGED keys
        ELSE /\ pc' = "returned"
             /\ keys' = IF noised
                        THEN Append(keys, [op |-> "split", key |-> RootKey])
                        ELSE keys
             /\ out' = [ status |-> "returned",
                         values |-> loc.loss,
                         grads |-> loc.clipped_grads,
                         noise |-> IF noised
                                   THEN add_noise(noise_stddev, loc.loss_weight, RootKey)
                                   ELSE NoNoise,
                         dp_aux_info |-> << loc.frac_clipped >>,
                         loss_weight |-> loc.loss_weight ]
  /\ UNCHANGED <<trees, kind, cfg, cfg0, under_pmap, device_count, inp, loc, ndiff, sc>>

InitGhost ==
  /\ kind = "Ghost"
  /\ cfg \in GhostConfigs
  /\ cfg0 = cfg
  /\ InitEnv
  /\ InitCall
  /\ sc = <<>>
  /\ trees = <<>>

NextGhost ==
  \/ Call
  \/ Ghost_Validate
  \/ Ghost_Pass1
  \/ Ghost_Pass2
  \/ Ghost_Finish

SpecGhost == InitGhost /\ [][NextGhost]_vars

(***************************************************************************)
(* Direct calls of _clipping_bound_scaling, each kept in sc together with  *)
(* the call before it.                                                     *)
(***************************************************************************)
MaxWeight == 5
ScalingWeights ==
  {None} \cup { Rat(n, d) : n \in 1..MaxWeight, d \in 1..MaxWeight }

Scaling_Call ==
  /\ kind = "Scaling"
  /\ \E u \in BOOLEAN, lw \in ScalingWeights :
       sc' = [ use_loss_weight_scaling |-> u,
               loss_weight |-> lw,
               result |-> clipping_bound_scaling(u, lw),
               before |-> IF sc = <<>> THEN <<>>
                          ELSE [ use_loss_weight_scaling |-> sc.use_loss_weight_scaling,
                                 loss_weight |-> sc.loss_weight,
                                 result |-> sc.result ] ]
  /\ UNCHANGED <<trees, kind, cfg, cfg0, under_pmap, device_count, pc, inp, loc, ndiff,
                 keys, out>>

InitScaling ==
  /\ kind = "Scaling"
  /\ cfg = <<>>
  /\ cfg0 = cfg
  /\ InitEnv
  /\ InitCall
  /\ sc = <<>>
  /\ trees = <<>>

NextScaling == Scaling_Call

SpecScaling == InitScaling /\ [][NextScaling]_vars

(***************************************************************************)
(* A grad_fn call followed on its trees.  A tree is a leaf, a dict of      *)
(* trees by key, or a ParamWithAux of two trees; a leaf is known by the    *)
(* parameter or input it comes of and by the operations it went through.   *)
(* The caller's trees are objects of a heap, as is every dict the call     *)
(* assigns into.                                                           *)
(***************************************************************************)
PARAMS == "params"

\* The keys of the dicts, in the order flattening visits them.
TreeKeys == <<"a", "b", "c", "non_trainable", "params">>

TLeaf(name, ops) == [tag |-> "leaf", of |-> name, ops |-> ops]
TDict(items) == [tag |-> "dict", items |-> items]
ParamWithAux(param, aux) == [tag |-> "ParamWithAux", param |-> param, aux |-> aux]

\* jax.tree.map(f, t) for a function f of one array: the same tree with op
\* recorded on every leaf.  A ParamWithAux is a node with two children.
RECURSIVE tree_map(_, _)
tree_map(op, t) ==
  CASE t.tag = "leaf" -> TLeaf(t.of, Append(t.ops, op))
    [] t.tag = "ParamWithAux" ->
         ParamWithAux(tree_map(op, t.param), tree_map(op, t.aux))
    [] OTHER -> TDict([k \in DOMAIN t.items |-> tree_map(op, t.items[k])])

\* jax.tree_util.tree_structure: the tree without what its leaves hold.
RECURSIVE tree_structure(_)
tree_structure(t) ==
  CASE t.tag = "leaf" -> [tag |-> "leaf"]
    [] t.tag = "ParamWithAux" ->
         ParamWithAux(tree_structure(t.param), tree_structure(t.aux))
    [] OTHER -> TDict([k \in DOMAIN t.items |-> tree_structure(t.items[k])])

\* jax.tree_util.tree_leaves: the leaves, dict entries in the order of their keys.
RECURSIVE tree_leaves(_)
RECURSIVE leaves_from(_, _)
tree_leaves(t) ==
  CASE t.tag = "leaf" -> <<t>>
    [] t.tag = "ParamWithAux" -> tree_leaves(t.param) \o tree_leaves(t.aux)
    [] OTHER -> leaves_from(t, 1)

\* The leaves under the keys TreeKeys[i], TreeKeys[i + 1], ... of the dict t.
leaves_from(t, i) ==
  IF i > Len(TreeKeys) THEN <<>>
  ELSE (IF TreeKeys[i] \in DOMAIN t.items
        THEN tree_leaves(t.items[TreeKeys[i]])
        ELSE <<>>) \o leaves_from(t, i + 1)

\* The place of key k in TreeKeys.
key_index(k) == CHOOSE i \in 1..Len(TreeKeys) : TreeKeys[i] = k

\* jax.tree_util.tree_unflatten(treedef, leaves): leaves is as long as
\* treedef has leaves.
RECURSIVE tree_unflatten(_, _)
tree_unflatten(treedef, leaves) ==
  CASE treedef.tag = "leaf" -> leaves[1]
    [] treedef.tag = "ParamWithAux" ->
         LET n == Len(tree_leaves(treedef.param))
         IN ParamWithAux(tree_unflatten(treedef.param, SubSeq(leaves, 1, n)),
                         tree_unflatten(treedef.aux, SubSeq(leaves, n + 1, Len(leaves))))
    [] OTHER ->
         TDict([k \in DOMAIN treedef.items |->
                  LET before == Len(leaves_from(treedef, 1))
                                  - Len(leaves_from(treedef, key_index(k)))
                      n == Len(tree_leaves(treedef.items[k]))
                  IN tree_unflatten(treedef.items[k],
                                    SubSeq(leaves, before + 1, before + n))])

\* [f(x) for x in flat] for a function f of one array.
list_map(op, flat) ==
  [i \in 1..Len(flat) |-> TLeaf(flat[i].of, Append(flat[i].ops, op))]

\* jax.tree.map(lambda x: ParamWithAux(x, scales), t).
RECURSIVE wrap(_, _)
wrap(t, scales) ==
  CASE t.tag = "leaf" -> ParamWithAux(t, TLeaf("scales", <<scales>>))
    [] t.tag = "ParamWithAux" ->
         ParamWithAux(wrap(t.param, scales), wrap(t.aux, scales))
    [] OTHER -> TDict([k \in DOMAIN t.items |-> wrap(t.items[k], scales)])

\* The same leaving every ParamWithAux in place.
unwrap_nothing(t) == t

\* jax.tree.map(lambda x: x.param, t, is_leaf=is_leaf): a ParamWithAux is
\* taken for a leaf and replaced by its param; an array has no param.
RECURSIVE unwrap(_)
unwrap(t) ==
  CASE t.tag = "ParamWithAux" -> t.param
    [] t.tag = "leaf" -> [tag |-> "AttributeError"]
    [] OTHER -> TDict([k \in DOMAIN t.items |-> unwrap(t.items[k])])

\* {**d, PARAMS: v}: a new dict with the entries of d and v under PARAMS.
with_params(d, v) ==
  TDict([k \in DOMAIN d.items \cup {PARAMS} |-> IF k = PARAMS THEN v ELSE d.items[k]])

\* _add_noise on a tree: the keys are laid out on the structure of grads and
\* mapped together with it.
add_noise_tree(grads) ==
  LET flat == tree_leaves(grads)
      prng_keys == [i \in 1..Len(flat) |-> TLeaf("prng_key", <<i>>)]
      prng_tree == tree_unflatten(tree_structure(grads), prng_keys)
  IN IF tree_structure(prng_tree) = tree_structure(grads)
     THEN tree_map("add_noise", grads)
     ELSE [tag |-> "ValueError"]

\* jax.tree.map(f, a, b) for a function f of two arrays: a and b have the
\* same structure, and the result is a with op recorded on every leaf.
tree_map2(op, a, b) ==
  IF tree_structure(a) = tree_structure(b)
  THEN tree_map(op, a)
  ELSE [tag |-> "ValueError"]

\* PercoreClippedDpSgdGradient._clip_gradients on a tree.
clip_gradients_tree(grads) ==
  LET grads_flat == tree_leaves(grads)
      grads_treedef == tree_structure(grads)
      clipped_flat == list_map("divide", grads_flat)
  IN tree_unflatten(grads_treedef, clipped_flat)

\* _clip_and_mean_gradients on a tree, of DpSgdStochasticGradient and of
\* PerLayerDpSgdStochasticGradient alike.
clip_and_mean_gradients_tree(grads0) ==
  LET grads == tree_map("_reshape_and_mean", grads0)
      grads_flat == tree_leaves(grads)
      grads_treedef == tree_structure(grads)
      sum_clipped == list_map("norm_clip", grads_flat)
      sum_grads == tree_unflatten(grads_treedef, sum_clipped)
  IN tree_map("divide", sum_grads)

\* The if of normalize_gradients.
normalize_tree(normalize, grads) ==
  IF normalize THEN tree_map("divide", grads) ELSE grads

\* The if of noise_multiplier > 0.
noise_tree(noised, grads) ==
  IF noised THEN add_noise_tree(grads) ELSE grads

\* d[k] = v on the dict object ref of the heap h.
setitem(h, ref, k, v) ==
  [h EXCEPT ![ref] =
     TDict([kk \in DOMAIN @.items \cup {k} |-> IF kk = k THEN v ELSE @.items[kk]])]

TreeClasses ==
  { "StandardGradient", "PercoreClippedDpSgdGradient", "DpSgdStochasticGradient",
    "PerLayerDpSgdStochasticGradient", "GhostClippingDpSgdStochasticGradient" }

DpSgdTreeClasses == {"DpSgdStochasticGradient", "PerLayerDpSgdStochasticGradient"}

W(name) == TLeaf(name, <<>>)

\* The grad-target trees a caller hands over: flat and nested PARAMS, with
\* and without an entry outside PARAMS, PARAMS one array, and no PARAMS.
GradTargetTrees ==
  { TDict([k \in {PARAMS} |-> TDict([j \in {"a", "b"} |-> W(j)])]),
    TDict([k \in {PARAMS, "non_trainable"} |->
             IF k = PARAMS
             THEN TDict([j \in {"a", "c"} |->
                           IF j = "a" THEN W("a") ELSE TDict([i \in {"b"} |-> W("c.b")])])
             ELSE W("non_trainable")]),
    TDict([k \in {PARAMS, "a"} |-> W(k)]),
    TDict([k \in {"a", "b"} |-> W(k)]) }

NoGradTrees ==
  { TDict([k \in {"non_trainable"} |-> W("step")]),
    TDict([k \in {PARAMS, "non_trainable"} |-> W(k)]) }

InputTrees ==
  { TDict([k \in {"a", "b"} |-> W(k)]) }

\* The most inner batches a followed call loops over.
MaxTreeIters == 2

NoTrees == [at |-> "idle"]

\* The caller calls grad_fn of an object of class c on its trees.
Trees_Call ==
  /\ kind = "Trees"
  /\ trees.at \in {"idle", "returned", "raised"}
  /\ \E c \in TreeClasses, g \in GradTargetTrees, n \in NoGradTrees, x \in InputTrees,
        normalize \in BOOLEAN, noised \in BOOLEAN, num_iters \in 1..MaxTreeIters :
       trees' = [ at |-> "called", class |-> c,
                  normalize |-> normalize, noised |-> noised, num_iters |-> num_iters,
                  given |-> [mdl_vars_grad |-> g, mdl_vars_nograd |-> n, inputs |-> x],
                  heap |-> [mdl_vars_grad |-> g, mdl_vars_nograd |-> n, inputs |-> x,
                            clipped_grads |-> None],
                  inputs |-> None, index |-> 0, grads |-> None, result |-> None ]
  /\ UNCHANGED <<kind, cfg, cfg0, under_pmap, device_count, pc, inp, loc, ndiff,
                 keys, out, sc>>

\* StandardGradient.grad_fn.
Trees_Standard ==
  /\ kind = "Trees"
  /\ trees.at = "called"
  /\ trees.class = "StandardGradient"
  /\ trees' = [trees EXCEPT !.at = "returned",
                            !.result = tree_map("grad", trees.heap.mdl_vars_grad)]
  /\ UNCHANGED <<kind, cfg, cfg0, under_pmap, device_count, pc, inp, loc, ndiff,
                 keys, out, sc>>

\* PercoreClippedDpSgdGradient.grad_fn: the gradient, its clipping, and the
\* normalizing and noising.
Trees_Percore ==
  /\ kind = "Trees"
  /\ trees.at = "called"
  /\ trees.class = "PercoreClippedDpSgdGradient"
  /\ trees' = [trees EXCEPT !.at = "clip",
                            !.grads = tree_map("grad", trees.heap.mdl_vars_grad)]
  /\ UNCHANGED <<kind, cfg, cfg0, under_pmap, device_count, pc, inp, loc, ndiff,
                 keys, out, sc>>

Trees_PercoreClip ==
  /\ kind = "Trees"
  /\ trees.at = "clip"
  /\ trees' = [trees EXCEPT !.at = "finish",
                            !.grads = clip_gradients_tree(trees.grads)]
  /\ UNCHANGED <<kind, cfg, cfg0, under_pmap, device_count, pc, inp, loc, ndiff,
                 keys, out, sc>>

Trees_PercoreFinish ==
  /\ kind = "Trees"
  /\ trees.at = "finish"
  /\ trees' = [trees EXCEPT
                 !.at = "returned",
                 !.result = noise_tree(trees.noised,
                                       normalize_tree(trees.normalize, trees.grads))]
  /\ UNCHANGED <<kind, cfg, cfg0, under_pmap, device_count, pc, inp, loc, ndiff,
                 keys, out, sc>>

\* DpSgdStochasticGradient.grad_fn: the inputs are prepared and reshaped
\* into a tree of the call's own.
Trees_Prepare ==
  /\ kind = "Trees"
  /\ trees.at = "called"
  /\ trees.class \in DpSgdTreeClasses
  /\ trees' = [trees EXCEPT
                 !.at = "inner",
                 !.inputs = tree_map("reshape_batch",
                                     tree_map("_prepare_inputs", trees.heap.inputs))]
  /\ UNCHANGED <<kind, cfg, cfg0, under_pmap, device_count, pc, inp, loc, ndiff,
                 keys, out, sc>>

\* _process_inner_batch(index), added to the results so far from the
\* second inner batch on.
Trees_Inner ==
  /\ kind = "Trees"
  /\ trees.at = "inner"
  /\ trees.index < trees.num_iters
  /\ LET new_inputs == tree_map("index", trees.inputs)
         grads == clip_and_mean_gradients_tree(tree_map("grad", trees.heap.mdl_vars_grad))
     IN trees' = [trees EXCEPT
                    !.index = @ + 1,
                    !.grads = IF trees.index = 0 THEN grads
                              ELSE tree_map2("add", trees.grads, grads)]
  /\ UNCHANGED <<kind, cfg, cfg0, under_pmap, device_count, pc, inp, loc, ndiff,
                 keys, out, sc>>

\* After the loop: the mean over the inner batches, normalizing, noising.
Trees_Reduce ==
  /\ kind = "Trees"
  /\ trees.at = "inner"
  /\ trees.index = trees.num_iters
  /\ trees' = [trees EXCEPT
                 !.at = "returned",
                 !.result = noise_tree(trees.noised,
                              normalize_tree(trees.normalize,
                                             tree_map("multiply", trees.grads)))]
  /\ UNCHANGED <<kind, cfg, cfg0, under_pmap, device_count, pc, inp, loc, ndiff,
                 keys, out, sc>>

\* The argument of a pass of GhostClippingDpSgdStochasticGradient.grad_fn:
\* the entries of mdl_vars_grad with PARAMS wrapped.
ghost_argument(mdl_vars_grad, scales) ==
  with_params(mdl_vars_grad, wrap(mdl_vars_grad.items[PARAMS], scales))

\* Pass 1, for the norms; mdl_vars_grad[PARAMS] is a KeyError without PARAMS.
Trees_Pass1 ==
  /\ kind = "Trees"
  /\ trees.at = "called"
  /\ trees.class = "GhostClippingDpSgdStochasticGradient"
  /\ IF PARAMS \in DOMAIN trees.heap.mdl_vars_grad.items
     THEN trees' = [trees EXCEPT
                      !.at = "pass2",
                      !.grads = tree_map("grad",
                                  ghost_argument(trees.heap.mdl_vars_grad, "ones"))]
     ELSE trees' = [trees EXCEPT !.at = "raised"]
  /\ UNCHANGED <<kind, cfg, cfg0, under_pmap, device_count, pc, inp, loc, ndiff,
                 keys, out, sc>>

\* Pass 2: the gradient is a dict of the call's own, and its PARAMS entry
\* is replaced in place by the unwrapped one.
Trees_Pass2 ==
  /\ kind = "Trees"
  /\ trees.at = "pass2"
  /\ LET clipped_grads == tree_map("grad",
                            ghost_argument(trees.heap.mdl_vars_grad, "scales"))
         allocated == [trees.heap EXCEPT !.clipped_grads = clipped_grads]
     IN trees' = [trees EXCEPT
                    !.at = "ghost_finish",
                    !.heap = setitem(allocated, "clipped_grads", PARAMS,
                                     unwrap(clipped_grads.items[PARAMS]))]
  /\ UNCHANGED <<kind, cfg, cfg0, under_pmap, device_count, pc, inp, loc, ndiff,
                 keys, out, sc>>

Trees_GhostFinish ==
  /\ kind = "Trees"
  /\ trees.at = "ghost_finish"
  /\ trees' = [trees EXCEPT
                 !.at = "returned",
                 !.result = noise_tree(trees.noised, trees.heap.clipped_grads)]
  /\ UNCHANGED <<kind, cfg, cfg0, under_pmap, device_count, pc, inp, loc, ndiff,
                 keys, out, sc>>

InitTrees ==
  /\ kind = "Trees"
  /\ cfg = <<>>
  /\ cfg0 = cfg
  /\ InitEnv
  /\ InitCall
  /\ sc = <<>>
  /\ trees = NoTrees

NextTrees ==
  \/ Trees_Call
  \/ Trees_Standard
  \/ Trees_Percore
  \/ Trees_PercoreClip
  \/ Trees_PercoreFinish
  \/ Trees_Prepare
  \/ Trees_Inner
  \/ Trees_Reduce
  \/ Trees_Pass1
  \/ Trees_Pass2
  \/ Trees_GhostFinish

SpecTrees == InitTrees /\ [][NextTrees]_vars

(***************************************************************************)
(* Properties.                                                             *)
(***************************************************************************)

\* C10: _clipping_bound_scaling(use_loss_weight_scaling, loss_weight) returns
\* loss_weight when use_loss_weight_scaling is set and loss_weight is given,
\* raises when it is set and loss_weight is None, returns 1 / device_count
\* when it is not set and the call runs under pmap, and 1 otherwise; two calls
\* without use_loss_weight_scaling return the same whatever their loss_weight.
C10_ScalingResult ==
  sc # <<>> =>
    /\ (sc.use_loss_weight_scaling /\ sc.loss_weight # None) =>
         (~sc.result.raised /\ sc.result.value = sc.loss_weight)
    /\ (sc.use_loss_weight_scaling /\ sc.loss_weight = None) => sc.result.raised
    /\ (~sc.use_loss_weight_scaling /\ under_pmap) =>
         (~sc.result.raised /\ sc.result.value = Rat(1, device_count))
    /\ (~sc.use_loss_weight_scaling /\ ~under_pmap) =>
         (~sc.result.raised /\ sc.result.value = One)
    /\ (/\ sc.before # <<>>
        /\ ~sc.use_loss_weight_scaling
        /\ ~sc.before.use_loss_weight_scaling) =>
         sc.result = sc.before.result

\* Two calls under pmap on two devices without use_loss_weight_scaling, one
\* with a loss_weight and one without, both giving 1/2.
C10_Witness ==
  /\ sc # <<>>
  /\ sc.before # <<>>
  /\ under_pmap
  /\ device_count = 2
  /\ ~sc.use_loss_weight_scaling
  /\ ~sc.before.use_loss_weight_scaling
  /\ sc.loss_weight = Rat(3, 4)
  /\ sc.before.loss_weight = None
  /\ sc.result.value = Rat(1, 2)

\* What grad_fn returns on the inputs of the call in progress when
\* inner_batch_size is None: one inner batch holding every group.
unchunked_result ==
  LET p == prepare_inputs(kind, cfg.microbatch_size[1], inp.examples)
      ch == chunking(p.batch_size, p.microbatch_size,
                     p.batch_size * p.microbatch_size)
      r == process_inner_batch(kind, cfg, p.flat, inp.loss_weight, ch, 0, "fits")
  IN dpsgd_result(cfg, [batch_size |-> p.batch_size, ch |-> ch, acc |-> r])

\* C1: for DpSgdStochasticGradient and its microbatch and augmentation
\* variants with noise_multiplier = 0, a call with an inner_batch_size that
\* divides batch_size * microbatch_size returns the loss, the frac_clipped and
\* the gradient tree that the call returns with inner_batch_size = None.
C1_InnerBatchSizeHasNoEffect ==
  (/\ kind \in {"DpSgd", "Microbatch", "AugMul"}
   /\ pc = "returned"
   /\ cfg.noise_multiplier = Zero
   /\ ~cfg.use_loss_weight_scaling) =>
    /\ out.values = unchunked_result.values
    /\ out.dp_aux_info = unchunked_result.dp_aux_info
    /\ out.grads = unchunked_result.grads

\* The bound an example is clipped to, its norm, and the example clipped.
per_example_bound ==
  RMul(clipping_bound_scaling(cfg.use_loss_weight_scaling, inp.loss_weight).value,
       cfg.l2_norm_clip)
example_norm(j) == GlobalNorm(Tree(inp.examples[j].k))
example_clipped(j) ==
  IF RLe(example_norm(j), per_example_bound)
  THEN Tree(inp.examples[j].k)
  ELSE TreeScale(RDiv(per_example_bound, example_norm(j)), Tree(inp.examples[j].k))

mean_of_clipped ==
  LET n == Len(inp.examples)
  IN TreeDiv(TreeSum(Array([j \in 1..n |-> example_clipped(j)])), RInt(n))

C8_DivisibilityCheck ==
  LET checked == "batch_size" \in DOMAIN loc
      indivisible ==
        /\ cfg.inner_batch_size # None
        /\ (loc.batch_size * loc.microbatch_size) % cfg.inner_batch_size[1] # 0
  IN /\ (kind \in DpSgdFamily /\ out = Raised("ValueError")) =>
          (checked /\ indivisible /\ ndiff = 0)
     /\ (kind \in DpSgdFamily /\ checked /\ indivisible) =>
          (pc = "raised" /\ out = Raised("ValueError") /\ ndiff = 0)

\* Two groups of two examples and inner_batch_size = 3.
C8_Witness ==
  /\ kind = "Microbatch"
  /\ out = Raised("ValueError")
  /\ cfg.inner_batch_size = <<3>>
  /\ loc.batch_size = 2
  /\ loc.microbatch_size = 2
  /\ ndiff = 0

\* Every strategy that clips or adds noise, in one specification.
InitAll == InitPercore \/ InitDpSgd \/ InitGhost

NextAll == NextPercore \/ NextDpSgd \/ NextGhost

SpecAll == InitAll /\ [][NextAll]_vars

\* The errors that report a configuration grad_fn does not accept.
ConfigErrors == {"AssertionError", "ValueError"}

\* The call in progress has not differentiated the loss function, has not
\* returned, and if it has ended, it has ended in a configuration error.
RejectedBeforeDifferentiation ==
  /\ ndiff = 0
  /\ pc # "returned"
  /\ pc = "raised" => out.error \in ConfigErrors

\* C4: on every strategy that can add noise, a grad_fn call with
\* use_loss_weight_scaling set and noise_multiplier # 0 ends in a
\* configuration error before the loss function is differentiated.
C4_LossWeightScalingWithNoiseRejected ==
  (cfg.use_loss_weight_scaling /\ cfg.noise_multiplier # Zero) =>
    RejectedBeforeDifferentiation

\* C5: on every strategy that clips (the per-core one without an adaptive
\* method), a grad_fn call with l2_norm_clip <= 0 ends in a configuration
\* error before the loss function is differentiated and returns no gradient.
C5_NonPositiveClipRejected ==
  (/\ cfg.adaptive_clipping_method = "None"
   /\ cfg.l2_norm_clip # None
   /\ ~RGt(cfg.l2_norm_clip, Zero)) =>
    RejectedBeforeDifferentiation

\* C6: PercoreClippedDpSgdGradient.grad_fn with an adaptive_clipping_method
\* that is neither None nor 'min' ends in a configuration error before the
\* loss function is differentiated.
C6_UnsupportedAdaptiveRejected ==
  (kind = "Percore" /\ cfg.adaptive_clipping_method \notin {"None", "min"}) =>
    RejectedBeforeDifferentiation

\* C7: PercoreClippedDpSgdGradient.grad_fn outside pmap fails with the
\* ValueError of its pmap check, whatever the configuration, before any other
\* check and before the loss function is differentiated.
C7_NotUnderPmapRejected ==
  (kind = "Percore" /\ ~under_pmap) =>
    /\ ndiff = 0
    /\ pc \in {"idle", "validate", "raised"}
    /\ pc = "raised" => out = Raised("ValueError")

\* A call outside pmap has failed on an instance that the assertion on
\* use_loss_weight_scaling would have rejected too.
C7_Witness ==
  /\ kind = "Percore"
  /\ ~under_pmap
  /\ cfg.use_loss_weight_scaling
  /\ cfg.noise_multiplier = One
  /\ cfg.l2_norm_clip = RInt(0)
  /\ pc = "raised"
  /\ out = Raised("ValueError")

\* C9: GhostClippingDpSgdStochasticGradient.grad_fn with inner_batch_size
\* set fails on its assertion before either differentiation pass.
C9_GhostInnerBatchSizeRejected ==
  (kind = "Ghost" /\ cfg.inner_batch_size # None) =>
    /\ ndiff = 0
    /\ pc \in {"idle", "validate", "raised"}
    /\ pc = "raised" => out = Raised("AssertionError")

\* A call has failed on an instance whose other fields grad_fn accepts.
C9_Witness ==
  /\ kind = "Ghost"
  /\ cfg.inner_batch_size = <<2>>
  /\ cfg.l2_norm_clip = RInt(10)
  /\ cfg.noise_multiplier = Zero
  /\ pc = "raised"
  /\ out = Raised("AssertionError")
  /\ ndiff = 0

\* The clipping of a returned per-core call against the bound of replica r.
percore_clipped_to(bound) ==
  \A r \in Replicas :
    LET g == Tree(inp.examples[r].k)
        n == GlobalNorm(g)
    IN /\ out.per_core_grad_norm[r] = n
       /\ RLe(n, bound) => (out.grads[r] = g /\ out.frac_clipped[r] = FALSE)
       /\ RGt(n, bound) =>
            (GlobalNorm(out.grads[r]) = bound /\ out.frac_clipped[r] = TRUE)

percore_fixed_bound_call ==
  /\ kind = "Percore"
  /\ pc = "returned"
  /\ cfg.noise_multiplier = Zero
  /\ ~cfg.normalize_gradients
  /\ cfg.adaptive_clipping_method = "None"
  /\ RGt(cfg.l2_norm_clip, Zero)

\* C2, as amended: PercoreClippedDpSgdGradient with noise_multiplier = 0,
\* normalize_gradients off and a fixed positive l2_norm_clip clips every
\* replica's gradient tree against l2_norm_clip times the scaling (the
\* loss_weight with use_loss_weight_scaling, else 1 / device_count): a tree
\* whose norm is at most that is returned as it is with frac_clipped false, a
\* tree whose norm is greater is returned with exactly that norm and
\* frac_clipped true, and per_core_grad_norm is the norm before clipping.
C2_ClippedToScaledBound ==
  percore_fixed_bound_call =>
    percore_clipped_to(
      RMul(IF cfg.use_loss_weight_scaling
           THEN inp.loss_weight
           ELSE Rat(1, device_count),
           cfg.l2_norm_clip))

\* C2, as stated: the same with l2_norm_clip itself as the clipping bound.
C2_ClippedToL2NormClip ==
  percore_fixed_bound_call => percore_clipped_to(cfg.l2_norm_clip)

\* Two replicas with l2_norm_clip = 10, hence the bound 5: the tree of norm 5
\* is returned as it is, the tree of norm 10 with norm 5.
C2_Witness ==
  /\ percore_fixed_bound_call
  /\ device_count = 2
  /\ ~cfg.use_loss_weight_scaling
  /\ cfg.l2_norm_clip = RInt(10)
  /\ inp.examples[1].k = RInt(1)
  /\ inp.examples[2].k = RInt(2)
  /\ out.grads[1] = Tree(RInt(1))
  /\ out.grads[2] = Tree(RInt(1))
  /\ out.frac_clipped = <<FALSE, TRUE>>

\* C11: after any sequence of grad_fn calls, every configuration field of
\* the instance has the value it was given at construction.
C11_ConfigurationUnchanged == Ended => cfg = cfg0

\* Every key the call in progress has consumed, in order: the keys it split,
\* the keys it handed to the loss function, and the keys of the noise draws.
consumed_keys ==
  Array([i \in 1..Len(keys) |-> keys[i].key])
    \o (IF pc = "returned" THEN Array(out.noise.leaf_keys) ELSE <<>>)

\* C12: within one grad_fn call of a strategy that adds noise, no key is
\* consumed twice: the incoming key, the keys handed to the loss function and
\* the keys of the per-leaf noise draws are pairwise distinct, and a key that
\* was split or used is not used again.
C12_NoKeyConsumedTwice ==
  RGt(cfg.noise_multiplier, Zero) =>
    \A i, j \in 1..Len(consumed_keys) :
      i # j => consumed_keys[i] # consumed_keys[j]

\* C13: PercoreClippedDpSgdGradient with l2_norm_clip = None, no adaptive
\* method, normalize_gradients off and noise_multiplier = 0, under pmap:
\* grad_fn does not fail, and returns the loss and the gradient of every
\* replica as the loss function gave them.
C13_NoBoundNoClipping ==
  (/\ kind = "Percore"
   /\ under_pmap
   /\ cfg0.l2_norm_clip = None
   /\ cfg.adaptive_clipping_method = "None"
   /\ ~cfg.normalize_gradients
   /\ cfg.noise_multiplier = Zero) =>
    /\ pc # "raised"
    /\ pc = "returned" =>
         /\ out.values = [r \in Replicas |-> inp.examples[r].loss]
         /\ out.grads = [r \in Replicas |-> Tree(inp.examples[r].k)]

\* C15: PercoreClippedDpSgdGradient with adaptive_clipping_method = 'min',
\* normalize_gradients off and noise_multiplier = 0: every replica's returned
\* gradient has the least of the replicas' norms before clipping as its norm,
\* a replica whose norm is that minimum is returned as it was with
\* frac_clipped false, and a replica with a greater norm has frac_clipped true.
C15_AdaptiveMinClipsToMinimum ==
  (/\ kind = "Percore"
   /\ pc = "returned"
   /\ cfg.adaptive_clipping_method = "min"
   /\ ~cfg.normalize_gradients
   /\ cfg.noise_multiplier = Zero) =>
    LET norms == Array([r \in Replicas |-> GlobalNorm(Tree(inp.examples[r].k))])
        least == RMinSeq(norms)
    IN \A r \in Replicas :
         /\ GlobalNorm(out.grads[r]) = least
         /\ norms[r] = least =>
              (out.grads[r] = Tree(inp.examples[r].k) /\ out.frac_clipped[r] = FALSE)
         /\ RGt(norms[r], least) => out.frac_clipped[r] = TRUE

\* The norm of example j's gradient as pass 1 yields it: the square root of
\* the sum over the leaves of the squared norms, times 1 / loss_weight
\* under pmap.
ghost_example_norm(j) ==
  LET n == Len(inp.examples)
      p == ghost_pass(inp.examples, Array([q \in 1..n |-> One]), inp.loss_weight)
      norm == RSqrt(RSum(Array([i \in Leaves |-> p.sq_norms[i][j]])))
  IN IF under_pmap THEN RMul(norm, RDiv(One, inp.loss_weight)) ELSE norm

\* C16: GhostClippingDpSgdStochasticGradient.grad_fn with an l2_norm_clip
\* differentiates exactly twice, both times with the incoming key: pass 1
\* with the scale 1 for every example, giving the per-example norms; pass 2
\* with the scales min(1, l2_norm_clip / norm), divided by l2_norm_clip when
\* normalize_gradients is set.  frac_clipped is the fraction of examples with
\* min(1, l2_norm_clip / norm) < 1, and the loss and the gradient returned are
\* those of pass 2.
C16_GhostTwoPasses ==
  (kind = "Ghost" /\ pc = "returned" /\ cfg.l2_norm_clip # None) =>
    LET n == Len(inp.examples)
        clipped == Array([j \in 1..n |->
                     RMin(One, RDiv(cfg.l2_norm_clip, ghost_example_norm(j)))])
        scales == Array([j \in 1..n |->
                    IF cfg.normalize_gradients
                    THEN RDiv(clipped[j], cfg.l2_norm_clip)
                    ELSE clipped[j]])
        pass2 == ghost_pass(inp.examples, scales, inp.loss_weight)
    IN /\ ndiff = 2
       /\ SubSeq(keys, 1, 2) = << [op |-> "loss_fn", key |-> RootKey],
                                  [op |-> "loss_fn", key |-> RootKey] >>
       /\ loc.pass1_scales = Array([j \in 1..n |-> One])
       /\ loc.grad_norms = Array([j \in 1..n |-> ghost_example_norm(j)])
       /\ loc.scales = scales
       /\ out.dp_aux_info =
            << Rat(Cardinality({j \in 1..n : RLt(clipped[j], One)}), n) >>
       /\ out.values = pass2.loss
       /\ out.grads = pass2.grad

\* Two devices, l2_norm_clip = 10 with normalize_gradients, examples of norms
\* 0 and 20: scales 1/10 and 1/20, frac_clipped 1/2.
C16_Witness ==
  /\ kind = "Ghost"
  /\ pc = "returned"
  /\ under_pmap
  /\ device_count = 2
  /\ inp.loss_weight = Rat(1, 2)
  /\ cfg.l2_norm_clip = RInt(10)
  /\ cfg.normalize_gradients
  /\ Len(inp.examples) = 2
  /\ loc.grad_norms = << RInt(0), RInt(20) >>
  /\ loc.scales = << Rat(1, 10), Rat(1, 20) >>
  /\ out.dp_aux_info = << Rat(1, 2) >>
  /\ ndiff = 2

\* The variance of the noise DpSgdStochasticGradient.grad_fn adds to every
\* leaf on a batch of batch_size examples (lines 545-556), for an instance
\* with the fields c.
dpsgd_noise_variance(c, batch_size) ==
  add_noise(RMul(RDiv(c.noise_multiplier, RInt(batch_size)),
                 IF c.normalize_gradients THEN One ELSE c.l2_norm_clip),
            clipping_bound_scaling(c.use_loss_weight_scaling, None).value,
            RootKey).variance

\* C17: for the same l2_norm_clip, noise_multiplier > 0, normalize_gradients,
\* batch size, execution mode and device count, the noise
\* GhostClippingDpSgdStochasticGradient adds to a leaf has the standard
\* deviation of the noise DpSgdStochasticGradient adds, whatever loss_weight
\* the loss function reports.
C17_GhostNoiseAsDpSgd ==
  (/\ kind = "Ghost"
   /\ pc = "returned"
   /\ RGt(cfg.noise_multiplier, Zero)
   /\ ~cfg.use_loss_weight_scaling
   /\ cfg.l2_norm_clip # None
   /\ RGt(cfg.l2_norm_clip, Zero)) =>
    out.noise.variance = dpsgd_noise_variance(cfg, Len(inp.examples))

\* The chunking has been computed for the call in progress.
chunked == kind \in DpSgdFamily /\ "ch" \in DOMAIN loc

\* C18, as amended: with inner_batch_size dividing batch_size *
\* microbatch_size, batch_splits = gcd(batch_size, inner_batch_size),
\* microbatch_splits = inner_batch_size / batch_splits, and the number of
\* chunks iterated is num_iters = batch_size / batch_splits, batch_size being
\* the number of microbatch groups.
C18_SplitsOfBatchSize ==
  chunked =>
    LET ibs == loc.ch.inner_batch_size
        batch_splits == Gcd(loc.batch_size, ibs)
    IN /\ (loc.batch_size * loc.microbatch_size) % ibs = 0
       /\ loc.ch.batch_splits = batch_splits
       /\ loc.ch.microbatch_splits * batch_splits = ibs
       /\ loc.ch.num_iters * batch_splits = loc.batch_size
       /\ Len(loc.inner_prng_keys) = loc.ch.num_iters
       /\ pc = "returned" => Len(loc.processed) = loc.ch.num_iters

\* C18, as stated: the same with total_examples = batch_size *
\* microbatch_size in the place of batch_size.
C18_SplitsOfTotalExamples ==
  chunked =>
    LET ibs == loc.ch.inner_batch_size
        total_examples == loc.batch_size * loc.microbatch_size
        batch_splits == Gcd(total_examples, ibs)
    IN /\ loc.ch.batch_splits = batch_splits
       /\ loc.ch.microbatch_splits * batch_splits = ibs
       /\ loc.ch.num_iters * batch_splits = total_examples
       /\ pc = "returned" => Len(loc.processed) = loc.ch.num_iters

\* Two groups of three and inner_batch_size = 3: batch_splits = gcd(2, 3) = 1,
\* microbatch_splits = 3, and two chunks have been iterated.
C18_Witness ==
  /\ chunked
  /\ pc = "returned"
  /\ loc.batch_size = 2
  /\ loc.microbatch_size = 3
  /\ cfg.inner_batch_size = <<3>>
  /\ loc.ch.batch_splits = 1
  /\ loc.ch.microbatch_splits = 3
  /\ loc.ch.num_iters = 2
  /\ loc.processed = <<0, 1>>

\* What inner batch i of the call in progress yields.
chunk_result(i) ==
  process_inner_batch(kind, cfg, loc.inputs, inp.loss_weight, loc.ch, i, "fits")

\* acc is r when r is the first result, and else the sum of before and r.
accumulated(acc, before, r, first) ==
  IF first
  THEN /\ acc.values = r.values
       /\ acc.loss_weight = r.loss_weight
       /\ acc.dp_aux_info = r.dp_aux_info
       /\ acc.grads = r.grads
  ELSE /\ acc.values = RAdd(before.values, r.values)
       /\ acc.loss_weight = RAdd(before.loss_weight, r.loss_weight)
       /\ acc.dp_aux_info = [q \in 1..Len(r.dp_aux_info) |->
                               RAdd(before.dp_aux_info[q], r.dp_aux_info[q])]
       /\ acc.grads = [q \in Leaves |-> RAdd(before.grads[q], r.grads[q])]

\* res is acc divided by n, its gradients divided by l2_norm_clip as well
\* when normalize_gradients is set.
averaged(res, acc, n, c) ==
  /\ res.values = RDiv(acc.values, RInt(n))
  /\ res.loss_weight = RDiv(acc.loss_weight, RInt(n))
  /\ res.dp_aux_info = [q \in 1..Len(acc.dp_aux_info) |->
                          RDiv(acc.dp_aux_info[q], RInt(n))]
  /\ res.grads = [q \in Leaves |->
                    IF c.normalize_gradients
                    THEN RDiv(RDiv(acc.grads[q], RInt(n)), c.l2_norm_clip)
                    ELSE RDiv(acc.grads[q], RInt(n))]

\* C19: the inner batches of a DpSgdStochasticGradient.grad_fn call are
\* processed one after the other in the order 0, 1, ..., num_iters - 1, each
\* once, inner batch i with the i-th of the num_iters keys the incoming key
\* was split into; every inner batch processed adds what it yields to the
\* accumulator, which starts as what inner batch 0 yields; and grad_fn
\* returns, after inner batch num_iters - 1, the accumulator divided by
\* num_iters (with num_iters = 1, what inner batch 0 yielded).
C19_SequentialReduction ==
  [][ (/\ chunked
       /\ pc \in {"first", "loop"}
       /\ pc' \in {"loop", "returned"}
       /\ broadcast_modes(cfg.use_loss_weight_scaling, loc.ch) = {"fits"}) =>
        IF pc' = "loop"
        THEN /\ loc.index < loc.ch.num_iters
             /\ (pc = "first") <=> (loc.index = 0)
             /\ loc'.index = loc.index + 1
             /\ loc'.processed = [i \in 1..(loc.index + 1) |-> i - 1]
             /\ ndiff' = loc.index + 1
             /\ keys' = Append(keys, [op |-> "loss_fn",
                                      key |-> SubKey(RootKey, loc.ch.num_iters, loc.index)])
             /\ accumulated(loc'.acc, loc.acc, chunk_result(loc.index), loc.index = 0)
        ELSE /\ loc.index = loc.ch.num_iters
             /\ ndiff' = loc.ch.num_iters
             /\ loc' = loc
             /\ averaged(out', loc.acc, loc.ch.num_iters, cfg)
    ]_vars

\* Three examples of norms 5, 10 and 20 in three inner batches of one,
\* clipped to 10: the gradients 1, 2 and 2 times Dir are summed in this order
\* and the sum divided by 3.
C19_Witness ==
  /\ chunked
  /\ kind = "DpSgd"
  /\ pc = "returned"
  /\ ~under_pmap
  /\ cfg.inner_batch_size = <<1>>
  /\ cfg.l2_norm_clip = RInt(10)
  /\ cfg.noise_multiplier = Zero
  /\ ~cfg.normalize_gradients
  /\ ~cfg.use_loss_weight_scaling
  /\ loc.ch.num_iters = 3
  /\ loc.processed = <<0, 1, 2>>
  /\ [j \in 1..3 |-> inp.examples[j].k] = <<RInt(1), RInt(2), RInt(4)>>
  /\ loc.acc.grads = Tree(RInt(5))
  /\ out.grads = Tree(Rat(5, 3))
  /\ out.dp_aux_info = << Rat(1, 3) >>

\* C20: MicrobatchDpSgdStochasticGradient._prepare_inputs turns a batch of n
\* examples, n divisible by microbatch_size, into n / microbatch_size groups
\* of microbatch_size, group g holding the examples g * microbatch_size ..
\* g * microbatch_size + microbatch_size - 1 in order, and fails on the shape
\* when n is not divisible; AugMulDpSgdStochasticGradient yields n groups of
\* microbatch_size, every entry of group i being example i.
C20_PrepareInputs ==
  (kind \in {"Microbatch", "AugMul"} /\ pc \in {"first", "loop", "returned", "raised"}
     /\ inp # <<>>) =>
    LET n == Len(inp.examples)
        m == cfg.microbatch_size[1]
        failed == pc = "raised" /\ out = Raised("ShapeError") /\ loc = <<>>
        \* entry t of group g, both counted from 0
        entry(g, t) == loc.inputs[g * loc.microbatch_size + t + 1]
    IN IF kind = "Microbatch" /\ n % m # 0
       THEN failed /\ ndiff = 0
       ELSE /\ ~failed
            /\ "batch_size" \in DOMAIN loc
            /\ loc.microbatch_size = m
            /\ loc.batch_size = IF kind = "Microbatch" THEN n \div m ELSE n
            /\ "inputs" \in DOMAIN loc =>
                 /\ Len(loc.inputs) = loc.batch_size * m
                 /\ \A g \in 0..(loc.batch_size - 1), t \in 0..(m - 1) :
                      entry(g, t) = IF kind = "Microbatch"
                                    THEN inp.examples[g * m + t + 1]
                                    ELSE inp.examples[g + 1]

\* Four examples in microbatches of two: two groups, the first holding
\* examples 0 and 1 and the second examples 2 and 3.
C20_Witness ==
  /\ kind = "Microbatch"
  /\ pc = "returned"
  /\ cfg.microbatch_size = <<2>>
  /\ Len(inp.examples) = 4
  /\ [j \in 1..4 |-> inp.examples[j].k] = <<RInt(0), RInt(4), RInt(4), RInt(0)>>
  /\ loc.batch_size = 2
  /\ loc.microbatch_size = 2
  /\ [j \in 1..4 |-> loc.inputs[j].k] = <<RInt(0), RInt(4), RInt(4), RInt(0)>>

\* Whether a ParamWithAux is left anywhere in the tree t.
RECURSIVE has_wrapper(_)
has_wrapper(t) ==
  CASE t.tag = "ParamWithAux" -> TRUE
    [] t.tag = "dict" -> \E k \in DOMAIN t.items : has_wrapper(t.items[k])
    [] OTHER -> FALSE

\* What the leaves of t come of, in the order of flattening.
leaf_origins(t) == [i \in 1..Len(tree_leaves(t)) |-> tree_leaves(t)[i].of]

\* C14: for every strategy, grad_fn leaves the caller's grad-target tree,
\* non-grad tree and inputs as they were handed over, and the gradient tree
\* it returns has the nested structure of the grad-target tree: the same
\* keys, a leaf for each leaf and of that leaf, and no ParamWithAux; with
\* GhostClippingDpSgdStochasticGradient that holds of the entries outside
\* PARAMS as well.
C14_TreesKeptAndSameStructure ==
  (kind = "Trees" /\ trees.at # "idle") =>
    /\ trees.heap.mdl_vars_grad = trees.given.mdl_vars_grad
    /\ trees.heap.mdl_vars_nograd = trees.given.mdl_vars_nograd
    /\ trees.heap.inputs = trees.given.inputs
    /\ trees.at = "returned" =>
         /\ tree_structure(trees.result) = tree_structure(trees.given.mdl_vars_grad)
         /\ ~has_wrapper(trees.result)
         /\ leaf_origins(trees.result) = leaf_origins(trees.given.mdl_vars_grad)

\* A ghost clipping call has returned on a grad-target tree with nested
\* PARAMS and an entry outside PARAMS: its two passes wrapped the three
\* arrays of PARAMS, and the noised result holds a gradient for each of them
\* and for the entry outside.
C14_Witness ==
  /\ kind = "Trees"
  /\ trees.at = "returned"
  /\ trees.class = "GhostClippingDpSgdStochasticGradient"
  /\ trees.noised
  /\ DOMAIN trees.given.mdl_vars_grad.items = {PARAMS, "non_trainable"}
  /\ has_wrapper(ghost_argument(trees.given.mdl_vars_grad, "scales"))
  /\ trees.heap.clipped_grads # None
  /\ leaf_origins(trees.result) = <<"non_trainable", "a", "c.b">>
  /\ trees.result.items[PARAMS].items["c"].items["b"].ops = <<"grad", "add_noise">>

\* The positions, in the flattened batch, that inner batch index takes: its
\* rows one after the other.
chunk_positions(ch, index) ==
  UNION { { row_positions(ch, index, r)[j] : j \in 1..ch.dim2 } :
            r \in 1..ch.inner_batch_size }

\* How many places (index, r, j) of the inner batches hold position p.
places_of(ch, p) ==
  Cardinality({ x \in (0..(ch.num_iters - 1)) \X (1..ch.inner_batch_size) \X (1..ch.dim2) :
                  row_positions(ch, x[1], x[2])[x[3]] = p })

\* The positions averaged together before clipping as unit q of inner batch
\* index: the loss function averages the examples of a row, and
\* _reshape_and_mean averages microbatch_splits rows in a row.
unit_positions(ch, index, q) ==
  UNION { { row_positions(ch, index, r)[j] : j \in 1..ch.dim2 } :
            r \in ((q - 1) * ch.microbatch_splits + 1)..(q * ch.microbatch_splits) }

clipping_units(ch) ==
  { unit_positions(ch, index, q) :
      index \in 0..(ch.num_iters - 1),
      q \in 1..(ch.inner_batch_size \div ch.microbatch_splits) }

\* The positions of the microbatch groups _prepare_inputs produced: row g of
\* the (batch_size, microbatch_size) inputs.
microbatch_groups(batch_size, microbatch_size) ==
  { ((g - 1) * microbatch_size + 1)..(g * microbatch_size) : g \in 1..batch_size }

\* microbatch_splits divides microbatch_size.
C21_SplitsDivideMicrobatch ==
  chunked => loc.microbatch_size % loc.ch.microbatch_splits = 0

\* Every example of the prepared batch is in exactly one inner batch, at
\* exactly one place, and the inner batches hold nothing else.
C21_ChunksPartitionBatch ==
  chunked =>
    LET total == loc.batch_size * loc.microbatch_size
    IN /\ \A p \in 1..total : places_of(loc.ch, p) = 1
       /\ \A index \in 0..(loc.ch.num_iters - 1) :
            chunk_positions(loc.ch, index) \subseteq 1..total

\* C21: for every batch_size, microbatch_size and inner_batch_size dividing
\* batch_size * microbatch_size, the chunking of
\* DpSgdStochasticGradient.grad_fn is exact and group-preserving:
\* microbatch_splits divides microbatch_size, every example belongs to
\* exactly one chunk, and the sets of examples averaged together before
\* clipping are exactly the microbatch groups of _prepare_inputs.
C21_ChunkingExactAndGroupPreserving ==
  /\ C21_SplitsDivideMicrobatch
  /\ C21_ChunksPartitionBatch
  /\ chunked =>
       clipping_units(loc.ch) = microbatch_groups(loc.batch_size, loc.microbatch_size)

====
